---- MODULE Spec2Model ----
(***************************************************************************)
(* Model of the RLE codec of src/src/rle.py: encode_rle / decode_rle, the  *)
(* shared run-accumulation loop _do_encode, the two record writers         *)
(* (_encode_mA, _encode_mB) and the two payload decoders (_decode_mA,      *)
(* _decode_mB).  Files are byte sequences; a byte is an integer 0..255.    *)
(***************************************************************************)
EXTENDS Integers, Sequences, FiniteSets, TLC

VARIABLES
    raw,         \* content of the file at in_file_path of encode_rle
    rle,         \* content of the .rle file (encode output, decode input)
    rle_exists,  \* whether the .rle file exists
    dec,         \* content of the file at out_file_path of decode_rle
    dec_exists,  \* whether that file exists
    now,         \* int(time.time()), as big-endian base-256 digits
    pc,          \* position of the program
    method,      \* the RLEMethod handed to encode_rle / resolved by decode_rle
    pos,         \* read position of the open input file
    curr_byte,   \* _do_encode: curr_byte (b'' or one byte)
    count,       \* _do_encode: count
    emitted,     \* the (count, byte) pairs handed to write_fn so far
    err,         \* the exception that ended the operation, or NoError
    timestamp    \* decode_rle: the bytes int.from_bytes was given

vars == << raw, rle, rle_exists, dec, dec_exists, now, pc, method, pos,
           curr_byte, count, emitted, err, timestamp >>

----------------------------------------------------------------------------
(* Bounds of the model *)

\* input alphabet is 0 .. NumBytes-1 (0 is the byte 0x00)
NumBytes == 3
\* every byte sequence up to this length is an input
MaxLen == 4
\* long inputs: a run of k*255 or k*255+1 bytes, k in 1..MaxSegs
MaxSegs == 2
\* payload length of the hand-made streams given to decode_rle
MaxPayload == 3

(* Program constants *)

\* rle.py:91  if count == 256
CountLimit == 256
\* rle.py:165  bytes([byte]) accepts 0..255
ByteMax == 255
\* rle.py:37 / rle.py:38  RLEMethod.A = b'\x21', RLEMethod.B = b'\x8a'
TagA == 33
TagB == 138
\* rle.py:49  to_bytes(4, 'big') ; rle.py:111 read(4)
TimestampLen == 4
\* example run of spec section 8 / tests/run_tests.py:122
ExampleRun == 300

----------------------------------------------------------------------------
(* Byte strings *)

Min(a, b) == IF a < b THEN a ELSE b

Bytes == 0 .. (NumBytes - 1)

Rep(b, n) == [i \in 1 .. n |-> b]

SeqsUpTo(S, n) == UNION { [1 .. k -> S] : k \in 0 .. n }

\* file.read(n) at read position p: at most n bytes, fewer at end of file
Read(s, p, n) == SubSeq(s, p + 1, Min(p + n, Len(s)))

NoError == "none"
\* the exceptions the code can raise, by their Python message
UnknownMethod == "ValueError: not a valid RLEMethod"
UnpackError == "ValueError: not enough values to unpack"
ByteRangeError == "ValueError: bytes must be in range(0, 256)"
MultiplyError == "TypeError: can't multiply sequence by non-int of type 'bytes'"
OverflowError == "OverflowError: int too big to convert"

\* _int_to_byte: bytes([byte]) raises ValueError outside 0..255
IntToByteOK(n) == n \in 0 .. ByteMax
_int_to_byte(n) == << n >>

Methods == { "A", "B" }
RLEMethodValue(m) == IF m = "A" THEN << TagA >> ELSE << TagB >>

\* mutant of ToBytes4: the four bytes least significant first ('little')
ToBytes4_little(t) == [ i \in 1 .. TimestampLen |-> t[Len(t) + 1 - i] ]

\* int.to_bytes(4, 'big') of an integer given as base-256 digits (most
\* significant first): OverflowError when it does not fit in 4 bytes
FitsIn4(t) == \A i \in 1 .. (Len(t) - TimestampLen) : t[i] = 0
ToBytes4(t) == SubSeq(t, Len(t) - TimestampLen + 1, Len(t))

----------------------------------------------------------------------------
(* Inputs *)

\* lengths of the long runs: around each multiple of the cap, and the
\* 300-byte run of the test vector
LongRuns == { k * (CountLimit - 1) + d : k \in 1 .. MaxSegs, d \in { 0, 1 } }
              \cup { ExampleRun }

\* the files given to encode_rle: every short byte string, b'LLLLARRB' and
\* b'ABC' of the module docstring, and the long runs followed by nothing or
\* by one more byte
Inputs == SeqsUpTo(Bytes, MaxLen)
          \cup { << 76, 76, 76, 76, 65, 82, 82, 66 >>, << 65, 66, 67 >> }
          \cup { Rep(b, n) \o t : b \in Bytes, n \in LongRuns,
                                  t \in SeqsUpTo(Bytes, 1) }

\* the value of now before encode_rle has read the clock
NoTime == << >>

\* int(time.time()): five base-256 digits, most significant first
Clock == { << 0, 101, 84, 200, 7 >>, << 0, 255, 255, 255, 255 >> }

\* int(time.time()) from 2^32 on: 2^32, 2^32 + 5 and 2^32 + 2^24 + 2^8
LateClock == { << 1, 0, 0, 0, 0 >>, << 1, 0, 0, 0, 5 >>, << 1, 1, 0, 1, 0 >> }

\* first bytes of the hand-made streams: the two tags and two other bytes
StreamTags == { TagA, TagB, 0, TagA + 1 }

\* the files given to decode_rle that encode_rle did not write: headers cut
\* at every length, and whole headers followed by a short payload
Streams == { SubSeq(<< g >> \o ToBytes4(t), 1, k) :
                 g \in StreamTags, t \in Clock, k \in 0 .. TimestampLen }
           \cup { << g, 101, 84, 200, 7 >> \o p :
                 g \in StreamTags, p \in SeqsUpTo(Bytes, MaxPayload) }

----------------------------------------------------------------------------
(* Encoder: rle.py 41-102 *)

\* mutant of write_fn_mA: the byte first, then the count byte
write_fn_mA_swapped(out, cb, c) ==
    IF IntToByteOK(c)
    THEN [ out |-> out \o cb \o _int_to_byte(c), err |-> NoError ]
    ELSE [ out |-> out \o cb, err |-> ByteRangeError ]

\* write_fn of _encode_mA: count byte, then the byte
write_fn_mA(out, cb, c) ==
    IF IntToByteOK(c)
    THEN [ out |-> out \o _int_to_byte(c) \o cb, err |-> NoError ]
    ELSE [ out |-> out, err |-> ByteRangeError ]

\* mutant of write_fn_mB: count >= 1 where the code has count > 1
write_fn_mB_always_flags(out, cb, c) ==
    IF c >= 1
    THEN IF IntToByteOK(c)
         THEN [ out |-> out \o cb \o cb \o _int_to_byte(c), err |-> NoError ]
         ELSE [ out |-> out \o cb \o cb, err |-> ByteRangeError ]
    ELSE [ out |-> out \o cb, err |-> NoError ]

\* mutant of write_fn_mB: the second copy of the byte is not written
write_fn_mB_no_double(out, cb, c) ==
    IF c > 1
    THEN IF IntToByteOK(c)
         THEN [ out |-> out \o cb \o _int_to_byte(c), err |-> NoError ]
         ELSE [ out |-> out \o cb, err |-> ByteRangeError ]
    ELSE [ out |-> out \o cb, err |-> NoError ]

\* write_fn of _encode_mB: the byte; for count > 1 the byte again and the
\* count byte
write_fn_mB(out, cb, c) ==
    IF c > 1
    THEN IF IntToByteOK(c)
         THEN [ out |-> out \o cb \o cb \o _int_to_byte(c), err |-> NoError ]
         ELSE [ out |-> out \o cb \o cb, err |-> ByteRangeError ]
    ELSE [ out |-> out \o cb, err |-> NoError ]

write_fn(m, out, cb, c) ==
    IF m = "A" THEN write_fn_mA(out, cb, c) ELSE write_fn_mB(out, cb, c)

\* mutant of LoopBody: the split happens one byte late (count == 257)
LoopBody_late_split(cb, cnt, nb) ==
    IF nb = cb
    THEN IF cnt + 1 = CountLimit + 1
         THEN [ write |-> << [ byte |-> cb, count |-> (cnt + 1) - 1 ] >>,
                curr_byte |-> cb, count |-> 1 ]
         ELSE [ write |-> << >>, curr_byte |-> cb, count |-> cnt + 1 ]
    ELSE [ write |-> << [ byte |-> cb, count |-> cnt ] >>,
           curr_byte |-> nb, count |-> 1 ]

\* mutant of LoopBody: after a split count restarts at 0, so the byte that
\* reached the cap is not counted
LoopBody_restart_at_zero(cb, cnt, nb) ==
    IF nb = cb
    THEN IF cnt + 1 = CountLimit
         THEN [ write |-> << [ byte |-> cb, count |-> (cnt + 1) - 1 ] >>,
                curr_byte |-> cb, count |-> 0 ]
         ELSE [ write |-> << >>, curr_byte |-> cb, count |-> cnt + 1 ]
    ELSE [ write |-> << [ byte |-> cb, count |-> cnt ] >>,
           curr_byte |-> nb, count |-> 1 ]

\* mutant of LoopBody: at the cap the excess over 255 (count - 255) is
\* handed to write_fn where the code hands count - 1
LoopBody_emits_excess(cb, cnt, nb) ==
    IF nb = cb
    THEN IF cnt + 1 = CountLimit
         THEN [ write |-> << [ byte |-> cb, count |-> (cnt + 1) - ByteMax ] >>,
                curr_byte |-> cb, count |-> 1 ]
         ELSE [ write |-> << >>, curr_byte |-> cb, count |-> cnt + 1 ]
    ELSE [ write |-> << [ byte |-> cb, count |-> cnt ] >>,
           curr_byte |-> nb, count |-> 1 ]

\* one iteration of the for loop of _do_encode on next_byte nb: the record
\* handed to write_fn (if any) and the new curr_byte and count
LoopBody(cb, cnt, nb) ==
    IF nb = cb
    THEN IF cnt + 1 = CountLimit
         THEN [ write |-> << [ byte |-> cb, count |-> (cnt + 1) - 1 ] >>,
                curr_byte |-> cb, count |-> 1 ]
         ELSE [ write |-> << >>, curr_byte |-> cb, count |-> cnt + 1 ]
    ELSE [ write |-> << [ byte |-> cb, count |-> cnt ] >>,
           curr_byte |-> nb, count |-> 1 ]

\* mutant of AfterLoop: the test of curr_byte is missing
AfterLoop_unguarded(cb, cnt) ==
    << [ byte |-> cb, count |-> cnt ] >>

\* the code after the loop: if curr_byte: write_fn(curr_byte, count)
AfterLoop(cb, cnt) ==
    IF cb # << >> THEN << [ byte |-> cb, count |-> cnt ] >> ELSE << >>

\* the effect of handing the records ws (none or one) to write_fn
Emit(ws, next_pc) ==
    IF ws = << >>
    THEN /\ pc' = next_pc
         /\ UNCHANGED << rle, emitted, err >>
    ELSE LET w == write_fn(method, rle, ws[1].byte, ws[1].count)
         IN  /\ rle' = w.out
             /\ emitted' = Append(emitted, ws[1])
             /\ err' = w.err
             /\ pc' = IF w.err = NoError THEN next_pc ELSE "enc_failed"

\* encode_rle, lines 42-49: open both files and write the header
encode_rle_at(clock) ==
    /\ pc = "idle"
    /\ \E m \in Methods, t \in clock :
          /\ method' = m
          /\ now' = t
          /\ rle_exists' = TRUE
          /\ IF FitsIn4(t)
             THEN /\ rle' = RLEMethodValue(m) \o ToBytes4(t)
                  /\ pc' = "enc_start"
                  /\ err' = NoError
             ELSE /\ rle' = RLEMethodValue(m)
                  /\ pc' = "enc_failed"
                  /\ err' = OverflowError
    /\ pos' = 0
    /\ emitted' = << >>
    /\ UNCHANGED << raw, dec, dec_exists, curr_byte, count, timestamp >>

\* encode_rle while the clock fits 32 bits
encode_rle == encode_rle_at(Clock)

\* encode_rle when the clock may also be at or beyond 2^32 (year 2106 on)
encode_rle_late == encode_rle_at(Clock \cup LateClock)

\* _do_encode, lines 86-87
_do_encode ==
    /\ pc = "enc_start"
    /\ curr_byte' = Read(raw, pos, 1)
    /\ pos' = pos + Len(curr_byte')
    /\ count' = 1
    /\ pc' = "enc_loop"
    /\ UNCHANGED << raw, rle, rle_exists, dec, dec_exists, now, method,
                    emitted, err, timestamp >>

\* _do_encode, lines 88-97: one iteration of the loop
_do_encode_loop ==
    /\ pc = "enc_loop"
    /\ pos < Len(raw)
    /\ LET r == LoopBody(curr_byte, count, Read(raw, pos, 1))
       IN  /\ curr_byte' = r.curr_byte
           /\ count' = r.count
           /\ Emit(r.write, "enc_loop")
    /\ pos' = pos + 1
    /\ UNCHANGED << raw, rle_exists, dec, dec_exists, now, method, timestamp >>

\* _do_encode, lines 99-100, and the return of encode_rle
_do_encode_end ==
    /\ pc = "enc_loop"
    /\ pos >= Len(raw)
    /\ Emit(AfterLoop(curr_byte, count), "enc_done")
    /\ UNCHANGED << raw, rle_exists, dec, dec_exists, now, method, pos,
                    curr_byte, count, timestamp >>

----------------------------------------------------------------------------
(* Decoder: rle.py 104-148 *)

\* mutant of RLEMethodOf: an unknown tag falls back to method B
RLEMethodOf_default_B(tag) ==
    IF tag = << TagA >> THEN "A" ELSE "B"

\* RLEMethod(in_file.read(1)), line 106: the method of a tag, "none" when
\* the enum has no such value (the constructor raises ValueError)
RLEMethodOf(tag) ==
    IF tag = << TagA >> THEN "A"
    ELSE IF tag = << TagB >> THEN "B"
    ELSE "none"

\* mutant of DecodeStepA: the pair is read as (byte, count)
DecodeStepA_swapped(s, p) ==
    LET chunk == Read(s, p, 2)
    IN  IF chunk = << >>
        THEN [ write |-> << >>, pos |-> p, end |-> "stop" ]
        ELSE IF Len(chunk) < 2
        THEN [ write |-> << >>, pos |-> p + 1, end |-> UnpackError ]
        ELSE [ write |-> Rep(chunk[1], chunk[2]), pos |-> p + 2,
               end |-> "next" ]

\* one iteration of the loop of _decode_mA at read position p of s: what it
\* writes, where the file position ends, and how the iteration ends
DecodeStepA(s, p) ==
    LET chunk == Read(s, p, 2)
    IN  IF chunk = << >>
        THEN [ write |-> << >>, pos |-> p, end |-> "stop" ]
        ELSE IF Len(chunk) < 2
        THEN [ write |-> << >>, pos |-> p + 1, end |-> UnpackError ]
        ELSE [ write |-> Rep(chunk[2], chunk[1]), pos |-> p + 2,
               end |-> "next" ]

\* one iteration of the loop of _decode_mB: byte1, byte2 are the two bytes
\* of the chunk; count = in_file.read(1) is a bytes object, and
\* count * bytes raises TypeError
DecodeStepB(s, p) ==
    LET chunk == Read(s, p, 2)
    IN  IF chunk = << >>
        THEN [ write |-> << >>, pos |-> p, end |-> "stop" ]
        ELSE IF Len(chunk) < 2
        THEN [ write |-> << >>, pos |-> p + 1, end |-> UnpackError ]
        ELSE IF chunk[1] = 0
        THEN [ write |-> << >>, pos |-> p + 2, end |-> "stop" ]
        ELSE IF chunk[1] = chunk[2]
        THEN [ write |-> << >>, pos |-> p + 2 + Len(Read(s, p + 2, 1)),
               end |-> MultiplyError ]
        ELSE [ write |-> _int_to_byte(chunk[1]), pos |-> p + 2,
               end |-> "next" ]

\* mutant of decode_rle: both files are opened before the tag is read
decode_rle_opens_first ==
    /\ pc \in { "idle", "enc_done" }
    /\ rle_exists
    /\ dec' = << >>
    /\ dec_exists' = TRUE
    /\ LET m == RLEMethodOf(Read(rle, 0, 1))
       IN  IF m = "none"
           THEN /\ pc' = "dec_failed"
                /\ err' = UnknownMethod
                /\ pos' = Len(Read(rle, 0, 1))
                /\ UNCHANGED << method, timestamp >>
           ELSE /\ method' = m
                /\ timestamp' = Read(rle, 1, TimestampLen)
                /\ pos' = 1 + Len(timestamp')
                /\ err' = NoError
                /\ pc' = "dec_loop"
    /\ UNCHANGED << raw, rle, rle_exists, now, curr_byte, count, emitted >>

\* decode_rle, lines 105-112: read the header, open the output file
decode_rle ==
    /\ pc \in { "idle", "enc_done" }
    /\ rle_exists
    /\ LET m == RLEMethodOf(Read(rle, 0, 1))
       IN  IF m = "none"
           THEN /\ pc' = "dec_failed"
                /\ err' = UnknownMethod
                /\ pos' = Len(Read(rle, 0, 1))
                /\ UNCHANGED << method, timestamp, dec, dec_exists >>
           ELSE /\ method' = m
                /\ timestamp' = Read(rle, 1, TimestampLen)
                /\ pos' = 1 + Len(timestamp')
                /\ dec' = << >>
                /\ dec_exists' = TRUE
                /\ err' = NoError
                /\ pc' = "dec_loop"
    /\ UNCHANGED << raw, rle, rle_exists, now, curr_byte, count, emitted >>

\* the effect of one decoder iteration r
Decoded(r) ==
    /\ dec' = dec \o r.write
    /\ pos' = r.pos
    /\ IF r.end = "next" THEN pc' = "dec_loop" /\ err' = err
       ELSE IF r.end = "stop" THEN pc' = "dec_done" /\ err' = err
       ELSE pc' = "dec_failed" /\ err' = r.end
    /\ UNCHANGED << raw, rle, rle_exists, dec_exists, now, method, curr_byte,
                    count, emitted, timestamp >>

\* _decode_mA, lines 120-121 (and lines 114-115 when the loop ends)
_decode_mA ==
    /\ pc = "dec_loop"
    /\ method = "A"
    /\ Decoded(DecodeStepA(rle, pos))

\* _decode_mB, lines 138-147 (and lines 114-115 when the loop ends)
_decode_mB ==
    /\ pc = "dec_loop"
    /\ method = "B"
    /\ Decoded(DecodeStepB(rle, pos))

----------------------------------------------------------------------------
(* Specification *)

\* content of an output file that exists before decode_rle runs
OldOutput == << 7, 7 >>

\* either a file to encode and no .rle file yet, or a .rle file that
\* encode_rle did not write (and an empty file to encode)
Init ==
    /\ \/ /\ raw \in Inputs
          /\ rle = << >>
          /\ rle_exists = FALSE
          /\ dec = << >>
          /\ dec_exists = FALSE
       \/ /\ raw = << >>
          /\ rle \in Streams
          /\ rle_exists = TRUE
          /\ dec_exists \in BOOLEAN
          /\ dec = IF dec_exists THEN OldOutput ELSE << >>
    /\ now = NoTime
    /\ pc = "idle"
    /\ method = "none"
    /\ pos = 0
    /\ curr_byte = << >>
    /\ count = 0
    /\ emitted = << >>
    /\ err = NoError
    /\ timestamp = << >>

Next ==
    \/ encode_rle
    \/ _do_encode
    \/ _do_encode_loop
    \/ _do_encode_end
    \/ decode_rle
    \/ _decode_mA
    \/ _decode_mB

Spec == Init /\ [][Next]_vars

\* the same program with a clock that may have passed 2^32
NextLate ==
    \/ encode_rle_late
    \/ _do_encode
    \/ _do_encode_loop
    \/ _do_encode_end
    \/ decode_rle
    \/ _decode_mA
    \/ _decode_mB

SpecLate == Init /\ [][NextLate]_vars

----------------------------------------------------------------------------
(* Reference definitions used by the properties *)

HeaderLen == 1 + TimestampLen

\* the bytes of the .rle file after the header
Payload == SubSeq(rle, HeaderLen + 1, Len(rle))

\* encode_rle has run: the .rle file is the one it wrote from raw
EncodeRan == now # NoTime

DecodeEnded == pc \in { "dec_done", "dec_failed" }
DecodeStarted == pc \in { "dec_loop", "dec_done", "dec_failed" }

\* the maximal runs of s: where they start and how long they are
RunStarts(s) == { i \in 1 .. Len(s) : i = 1 \/ s[i - 1] # s[i] }
RunStart(s, k) ==
    CHOOSE i \in RunStarts(s) : Cardinality({ j \in RunStarts(s) : j < i }) = k - 1
RunLength(s, i) ==
    CHOOSE n \in 1 .. (Len(s) - i + 1) :
        /\ \A j \in i .. (i + n - 1) : s[j] = s[i]
        /\ (i + n - 1 = Len(s) \/ s[i + n] # s[i])

\* a run of n bytes b: floor((n-1)/255) records of 255, then the rest
SplitRun(b, n) ==
    LET q == (n - 1) \div ByteMax
    IN  [ i \in 1 .. (q + 1) |->
            [ byte |-> << b >>,
              count |-> IF i <= q THEN ByteMax ELSE n - ByteMax * q ] ]

RECURSIVE SegmentsFrom(_, _)
SegmentsFrom(s, k) ==
    IF k > Cardinality(RunStarts(s)) THEN << >>
    ELSE SplitRun(s[RunStart(s, k)], RunLength(s, RunStart(s, k)))
         \o SegmentsFrom(s, k + 1)

\* the records of the claim for input s
Segments(s) == SegmentsFrom(s, 1)

RECURSIVE RecordsA(_)
RecordsA(rs) ==
    IF rs = << >> THEN << >>
    ELSE << rs[1].count >> \o rs[1].byte \o RecordsA(Tail(rs))

RECURSIVE RecordsB(_)
RecordsB(rs) ==
    IF rs = << >> THEN << >>
    ELSE (IF rs[1].count = 1 THEN rs[1].byte
          ELSE rs[1].byte \o rs[1].byte \o << rs[1].count >>)
         \o RecordsB(Tail(rs))

\* count copies of the byte of each record, in order
RECURSIVE Expand(_)
Expand(rs) ==
    IF rs = << >> THEN << >>
    ELSE Rep(rs[1].byte[1], rs[1].count) \o Expand(Tail(rs))

NoRun(s) == \A i \in 1 .. (Len(s) - 1) : s[i] # s[i + 1]

----------------------------------------------------------------------------
(* Properties *)

\* C1: Method A round-trip. When decode_rle has ended on the file that
\* encode_rle wrote with method A from input raw, it ended without error and
\* the decoded file is exactly raw (empty input and runs over 255 included).
RoundTripA ==
    (EncodeRan /\ DecodeEnded /\ method = "A")
        => (pc = "dec_done" /\ err = NoError /\ dec_exists /\ dec = raw)

\* a round trip of method A over a run that was split has ended
RoundTripA_Witness ==
    /\ EncodeRan /\ pc = "dec_done" /\ method = "A"
    /\ Len(raw) > ByteMax /\ Len(emitted) >= 2 /\ dec = raw

\* C2: Method B round-trip. When decode_rle has ended on the file that
\* encode_rle wrote with method B from input raw, it ended without error and
\* the decoded file is exactly raw.
RoundTripB ==
    (EncodeRan /\ DecodeEnded /\ method = "B")
        => (pc = "dec_done" /\ err = NoError /\ dec_exists /\ dec = raw)

\* C3: Run-count invariant. Every count handed to write_fn is in 1..255,
\* and the count pending between two input bytes is in 1..255.
CountInRange ==
    /\ \A i \in 1 .. Len(emitted) : emitted[i].count \in 1 .. ByteMax
    /\ pc = "enc_loop" => count \in 1 .. ByteMax

\* the encoder has just split a run: it handed 255 to write_fn and the
\* pending count is back to 1, with input left to read
CountInRange_Witness ==
    /\ pc = "enc_loop" /\ count = 1 /\ pos = CountLimit /\ pos < Len(raw)
    /\ emitted = << [ byte |-> curr_byte, count |-> ByteMax ] >>

\* C4: Run splitting. When the encoder has finished, the records it handed
\* to write_fn are, for each maximal run of n bytes b of the input in order,
\* floor((n-1)/255) records (255, b) and then one record
\* (n - 255*floor((n-1)/255), b); a run of 256 gives (255,b),(1,b) under
\* method A and b,b,255,b under method B, a run of 300 gives 255 then 45.
RunSplitting ==
    (EncodeRan /\ pc = "enc_done") =>
        /\ emitted = Segments(raw)
        /\ \A b \in Bytes :
              /\ raw = Rep(b, CountLimit) =>
                    Payload = IF method = "A" THEN << ByteMax, b, 1, b >>
                              ELSE << b, b, ByteMax, b >>
              /\ raw = Rep(b, ExampleRun) =>
                    emitted = << [ byte |-> << b >>, count |-> ByteMax ],
                                 [ byte |-> << b >>, count |-> ExampleRun - ByteMax ] >>

\* the encoder has finished on a run of 2*255+1 bytes followed by another
\* byte: three records for the run, one for the byte
RunSplitting_Witness ==
    /\ EncodeRan /\ pc = "enc_done"
    /\ Len(raw) = 2 * ByteMax + 2 /\ Len(emitted) = 4
    /\ emitted[3].count = 1 /\ emitted[4].byte # emitted[3].byte

\* C5: Method A encoding. When _encode_mA has finished, the payload is the
\* records handed to write_fn, in order, each as count byte then byte value,
\* expanding the records gives the input, and b'LLLLARRB' gives
\* b'\x04L\x01A\x02R\x01B'.
MethodAEncoding ==
    (EncodeRan /\ pc = "enc_done" /\ method = "A") =>
        /\ Payload = RecordsA(emitted)
        /\ Len(Payload) = 2 * Len(emitted)
        /\ Expand(emitted) = raw
        /\ raw = << 76, 76, 76, 76, 65, 82, 82, 66 >> =>
              Payload = << 4, 76, 1, 65, 2, 82, 1, 66 >>

\* _encode_mA has finished on b'LLLLARRB'
MethodAEncoding_Witness ==
    /\ EncodeRan /\ pc = "enc_done" /\ method = "A"
    /\ raw = << 76, 76, 76, 76, 65, 82, 82, 66 >>
    /\ Payload = << 4, 76, 1, 65, 2, 82, 1, 66 >>

\* C6: Method B encoding. When _encode_mB has finished, the payload is, for
\* each run segment of the input in order, the byte alone when the segment's
\* count is 1 and the byte twice followed by the count byte otherwise, and
\* b'LLLLARRB' gives b'LL\x04ARR\x02B'.
MethodBEncoding ==
    (EncodeRan /\ pc = "enc_done" /\ method = "B") =>
        /\ Payload = RecordsB(Segments(raw))
        /\ raw = << 76, 76, 76, 76, 65, 82, 82, 66 >> =>
              Payload = << 76, 76, 4, 65, 82, 82, 2, 66 >>

\* _encode_mB has finished on b'LLLLARRB'
MethodBEncoding_Witness ==
    /\ EncodeRan /\ pc = "enc_done" /\ method = "B"
    /\ raw = << 76, 76, 76, 76, 65, 82, 82, 66 >>
    /\ Payload = << 76, 76, 4, 65, 82, 82, 2, 66 >>

\* C7: No-run efficiency. When _encode_mB has finished on an input with no
\* two consecutive equal bytes, the payload is as long as the input, and is
\* the input.
NoRunEfficiency ==
    (EncodeRan /\ pc = "enc_done" /\ method = "B" /\ NoRun(raw)) =>
        (Len(Payload) = Len(raw) /\ Payload = raw)

\* _encode_mB has finished on an input of MaxLen bytes without a run
NoRunEfficiency_Witness ==
    /\ EncodeRan /\ pc = "enc_done" /\ method = "B"
    /\ NoRun(raw) /\ Len(raw) = MaxLen /\ Len(emitted) = MaxLen

\* C8: Empty input. Encoding the empty file ends without error, hands no
\* record to write_fn, and leaves the .rle file with the 5-byte header only.
EmptyInput ==
    (EncodeRan /\ raw = << >>) =>
        /\ pc # "enc_failed"
        /\ emitted = << >>
        /\ (pc \in { "enc_loop", "enc_done" }
              => /\ Len(rle) = HeaderLen
                 /\ rle = RLEMethodValue(method) \o ToBytes4(now))

\* encode_rle has finished on the empty file
EmptyInput_Witness ==
    /\ EncodeRan /\ raw = << >> /\ pc = "enc_done" /\ Len(rle) = HeaderLen

\* C9: Unknown method tag. Once decode_rle has started on a file whose first
\* byte is neither 0x21 nor 0x8A, it has failed with the unknown-method
\* error, having read the tag byte only and resolved no method: no payload
\* byte is decoded.
UnknownTagFails ==
    (DecodeStarted /\ Len(rle) >= 1 /\ rle[1] \notin { TagA, TagB }) =>
        /\ pc = "dec_failed"
        /\ err = UnknownMethod
        /\ pos = 1
        /\ method = "none"

\* decode_rle has failed on a whole header with an unknown tag and a payload
UnknownTagFails_Witness ==
    /\ pc = "dec_failed" /\ err = UnknownMethod
    /\ Len(rle) > HeaderLen /\ rle[1] \notin { TagA, TagB }

\* C10: Truncated header. Once decode_rle has started on a file shorter than
\* 5 bytes, it has failed instead of going on to decode a payload.
TruncatedHeaderFails ==
    (DecodeStarted /\ Len(rle) < HeaderLen) => pc = "dec_failed"

\* C11: Header layout and ordering. The first step of every encode_rle call
\* leaves the .rle file with exactly the 5 header bytes and no record
\* written; while the encoder runs the file holds the method tag (0x21 for
\* A, 0x8A for B) at offset 0 and the 4 timestamp bytes, most significant
\* first, at offsets 1..4; and every later step only appends, so the header
\* is written once and the payload starts at offset 5.
EncoderRunning == pc \in { "enc_start", "enc_loop", "enc_done" }

HeaderLayout ==
    /\ [](EncoderRunning =>
            /\ Len(rle) >= HeaderLen
            /\ rle[1] = (IF method = "A" THEN TagA ELSE TagB)
            /\ \A i \in 1 .. TimestampLen :
                  rle[1 + i] = now[Len(now) - TimestampLen + i]
            /\ (pc = "enc_start" => Len(rle) = HeaderLen))
    /\ [][(pc = "idle" /\ EncodeRan')
            => (Len(rle') = HeaderLen /\ emitted' = << >>)]_vars
    /\ [][(pc \in { "enc_start", "enc_loop" })
            => (Len(rle') >= Len(rle) /\ SubSeq(rle', 1, Len(rle)) = rle)]_vars

\* encode_rle with method B has finished with a payload after the header
\* 8A 65 54 C8 07
HeaderLayout_Witness ==
    /\ pc = "enc_done" /\ method = "B" /\ now = << 0, 101, 84, 200, 7 >>
    /\ SubSeq(rle, 1, HeaderLen) = << TagB, 101, 84, 200, 7 >>
    /\ Len(Payload) >= 3

\* C12: Timestamp truncation. For every clock value t, t >= 2^32 included,
\* encode_rle does not fail and the 4 timestamp bytes of the header are
\* t mod 2^32, most significant byte first (the last four base-256 digits
\* of t).
TimestampWraps ==
    (EncodeRan /\ pc # "idle") =>
        /\ pc # "enc_failed"
        /\ err # OverflowError
        /\ Len(rle) >= HeaderLen
        /\ \A i \in 1 .. TimestampLen :
              rle[1 + i] = now[Len(now) - TimestampLen + i]

\* the decoder of method B is about to run an iteration with at least n
\* bytes left to read
AtBytesB(n) == pc = "dec_loop" /\ method = "B" /\ pos + n <= Len(rle)

\* C13: Method B decoder lookahead. When the decoder is at byte b1 and the
\* next byte b2 differs from it, the step writes b1 once and moves past b1
\* only, so that b2 is the first byte of the next step.
LookaheadKeepsNext ==
    [][(AtBytesB(2) /\ rle[pos + 1] # rle[pos + 2])
         => (dec' = Append(dec, rle[pos + 1]) /\ pos' = pos + 1
             /\ pc' = "dec_loop")]_vars

\* C14: Method B decoder duplication signal. When the decoder is at byte b1
\* and the next byte equals it, the step takes the third byte as the count
\* n, writes b1 n times without error and moves past the three bytes.
DuplicationSignal ==
    [][(AtBytesB(3) /\ rle[pos + 1] = rle[pos + 2])
         => (dec' = dec \o Rep(rle[pos + 1], rle[pos + 3])
             /\ pos' = pos + 3 /\ err' = NoError /\ pc' = "dec_loop")]_vars

\* the records of a method B payload p read from index i: two equal bytes
\* start a record (byte, byte, count), any other byte is a literal
RECURSIVE ReadRecordsB(_, _)
ReadRecordsB(p, i) ==
    IF i > Len(p) THEN << >>
    ELSE IF i + 2 <= Len(p) /\ p[i] = p[i + 1]
    THEN << [ byte |-> << p[i] >>, count |-> p[i + 2] ] >>
         \o ReadRecordsB(p, i + 3)
    ELSE << [ byte |-> << p[i] >>, count |-> 1 ] >> \o ReadRecordsB(p, i + 1)

\* C15: Unambiguous duplication signal. In the payload _encode_mB has
\* written, a record of count 1 is never followed by a record of the same
\* byte, and reading the payload record by record (two equal bytes at a
\* record start announce a count) gives back exactly the records handed to
\* write_fn, also around the split of a long run.
UnambiguousSignal ==
    (EncodeRan /\ pc = "enc_done" /\ method = "B") =>
        /\ \A i \in 1 .. (Len(emitted) - 1) :
              emitted[i].count = 1 => emitted[i + 1].byte # emitted[i].byte
        /\ ReadRecordsB(Payload, 1) = emitted

\* _encode_mB has finished on a run of 256 bytes followed by another byte:
\* the literal left by the split is followed by a different byte
UnambiguousSignal_Witness ==
    /\ EncodeRan /\ pc = "enc_done" /\ method = "B"
    /\ Len(raw) = CountLimit + 1 /\ Len(emitted) = 3
    /\ emitted[1].count = ByteMax /\ emitted[2].count = 1
    /\ emitted[3].count = 1 /\ emitted[3].byte # emitted[2].byte

\* C16: Output untouched on unknown tag. The step in which decode_rle fails
\* with the unknown-method error leaves the output path as it was: not
\* created when it did not exist, its content kept when it did.
OutputUntouched ==
    [][(pc' = "dec_failed" /\ err' = UnknownMethod)
         => (dec_exists' = dec_exists /\ dec' = dec)]_vars

\* decode_rle has failed on an unknown tag and the file that was at the
\* output path still holds its content
OutputUntouched_Witness ==
    /\ pc = "dec_failed" /\ err = UnknownMethod
    /\ dec_exists /\ dec = OldOutput /\ Len(rle) >= 1

====
